---- MODULE Spec2Model ----
(***************************************************************************)
(* The two-agent poem notebook (demo.ipynb): an image message is streamed  *)
(* through the compiled graph START -> "Analysis Agent" -> "Creative       *)
(* Agent" -> END, and the run cell's loop prints every streamed event.     *)
(***************************************************************************)
EXTENDS Integers, Sequences, FiniteSets, TLC

\* How many times the run cell is executed in one kernel session.
MaxRuns == 2

----------------------------------------------------------------------------
\* Names and literals of the notebook

START == "__start__"
END == "__end__"
AnalysisName == "Analysis Agent"
CreativeName == "Creative Agent"

\* A message built without name= has name None; without id= it has id None.
NoName == "None"
NoId == 0
NoError == "NoError"

analysis_prompt == "You are the Analyst Agent, an expert in visual analysis."
creative_prompt == "You are the Creator Agent, a talented poet and creative writer."

analysis_llm == "moondream"
creative_llm == "gemma2:2b"

\* f"data:image/jpeg;base64,{encoded_string}"
ImageContent == "data:image/jpeg;base64,<hedgehog.jpg>"

\* What a model endpoint can answer: a completion (possibly empty) ...
AnalysisTexts == {"a small hedgehog on grass", ""}
CreativeTexts == {"Quills like stars...", ""}
\* ... or an error raised by the client.
ClientErrors == {"ConnectionError", "ResponseError"}

Outcomes(texts) ==
    [ok : {TRUE}, value : texts] \cup [ok : {FALSE}, value : ClientErrors]

----------------------------------------------------------------------------
\* Messages

HumanMessage(content, name) ==
    [type |-> "human", name |-> name, content |-> content, id |-> NoId]

SystemMessage(content) ==
    [type |-> "system", name |-> NoName, content |-> content, id |-> NoId]

\* The reducer of State.messages.  Messages without an id get a fresh one;
\* a right-hand message whose id is already in the left list replaces that
\* entry, any other is appended.
RECURSIVE assign_ids(_, _)
assign_ids(msgs, nid) ==
    IF msgs = <<>> THEN <<>>
    ELSE IF Head(msgs).id = NoId
         THEN <<[Head(msgs) EXCEPT !.id = nid]>> \o assign_ids(Tail(msgs), nid + 1)
         ELSE <<Head(msgs)>> \o assign_ids(Tail(msgs), nid)

count_new(msgs) == Cardinality({i \in DOMAIN msgs : msgs[i].id = NoId})

RECURSIVE merge(_, _)
merge(left, right) ==
    IF right = <<>> THEN left
    ELSE LET m == Head(right) IN
         IF \E i \in DOMAIN left : left[i].id = m.id
         THEN merge([i \in DOMAIN left |-> IF left[i].id = m.id THEN m ELSE left[i]],
                    Tail(right))
         ELSE merge(Append(left, m), Tail(right))

\* Mutation: State.messages declared without the reducer (last value wins).
add_messages_overwrite(left, right, nid) == assign_ids(right, nid)

add_messages(left, right, nid) ==
    merge(assign_ids(left, nid), assign_ids(right, nid + count_new(left)))

----------------------------------------------------------------------------
\* Agents

\* prompt | llm : the system message, then the placeholder "messages".
create_agent(llm, system_prompt) ==
    [llm |-> llm, prompt |-> <<SystemMessage(system_prompt)>>]

\* What agent.invoke(messages) sends to the agent's model.
agent_request(agent, messages) ==
    [llm |-> agent.llm, messages |-> agent.prompt \o messages]

analysis_agent == create_agent(analysis_llm, creative_prompt)
creative_agent == create_agent(creative_llm, creative_prompt)

\* Mutation: a failed call is swallowed and an empty message returned.
agent_node_swallow(state, agent, name, out) ==
    [raise |-> NoError,
     messages |-> <<HumanMessage(IF out.ok THEN out.value ELSE "", name)>>]

\* Mutation: the client's error is caught and another one raised.
agent_node_wrap(state, agent, name, out) ==
    IF out.ok
    THEN [raise |-> NoError, messages |-> <<HumanMessage(out.value, name)>>]
    ELSE [raise |-> "RuntimeError", messages |-> <<>>]

\* Mutation: an empty completion is rejected.
agent_node_reject_empty(state, agent, name, out) ==
    IF out.ok /\ out.value # ""
    THEN [raise |-> NoError, messages |-> <<HumanMessage(out.value, name)>>]
    ELSE [raise |-> IF out.ok THEN "UpstreamGenerationError" ELSE out.value,
          messages |-> <<>>]

\* Mutation: the node returns the history it was given plus the new message.
agent_node_history(state, agent, name, out) ==
    IF out.ok
    THEN [raise |-> NoError,
          messages |-> Append(state.messages, HumanMessage(out.value, name))]
    ELSE [raise |-> out.value, messages |-> <<>>]

\* out is the answer of the agent's model to agent_request(agent, state.messages).
\* There is no try/except: an error of the call leaves the function as it is.
agent_node(state, agent, name, out) ==
    IF out.ok
    THEN [raise |-> NoError, messages |-> <<HumanMessage(out.value, name)>>]
    ELSE [raise |-> out.value, messages |-> <<>>]

\* Mutation: the analysis node is registered under the other agent's name.
analysis_node_misnamed(state, out) ==
    agent_node(state, analysis_agent, CreativeName, out)

analysis_node(state, out) == agent_node(state, analysis_agent, AnalysisName, out)

\* Mutation: the creative node answers with a fixed text.
creative_node_fixed(state, out) ==
    agent_node(state, creative_agent, CreativeName,
               [out EXCEPT !.value = IF out.ok THEN "poem" ELSE out.value])

creative_node(state, out) == agent_node(state, creative_agent, CreativeName, out)

----------------------------------------------------------------------------
\* The graph

NodeNames == {AnalysisName, CreativeName}

node_agent(n) == IF n = AnalysisName THEN analysis_agent ELSE creative_agent
node_texts(n) == IF n = AnalysisName THEN AnalysisTexts ELSE CreativeTexts
run_node(n, state, out) ==
    IF n = AnalysisName THEN analysis_node(state, out) ELSE creative_node(state, out)

\* Mutation: the two agents are wired in the other order.
edges_swapped ==
    {<<START, CreativeName>>, <<CreativeName, AnalysisName>>, <<AnalysisName, END>>}

edges ==
    {<<START, AnalysisName>>, <<AnalysisName, CreativeName>>, <<CreativeName, END>>}

successor(n) == CHOOSE m \in NodeNames \cup {END} : <<n, m>> \in edges

\* graph.stream in its default mode yields {node: update} after each node.
stream_event(n, update) == [node |-> n, messages |-> update]

----------------------------------------------------------------------------
\* State

VARIABLES
    message,    \* the notebook's global variable `message`
    messages,   \* State.messages of the current run
    pc,         \* "Idle" | "Next" | "Body" | "End" | "Failed"
    node,       \* the node the graph runs next
    calls,      \* the model calls of the current run, in order
    events,     \* the events the stream has yielded in the current run
    printed,    \* what the loop has printed in the current run
    raised,     \* the exception that left graph.stream, if any
    runs,       \* executions of the run cell so far
    nextId      \* supply of fresh message ids

vars == <<message, messages, pc, node, calls, events, printed, raised, runs, nextId>>

NoException == [error |-> NoError, note |-> NoName]

Init ==
    /\ message = HumanMessage(ImageContent, NoName)
    /\ messages = <<>>
    /\ pc = "Idle"
    /\ node = START
    /\ calls = <<>>
    /\ events = <<>>
    /\ printed = <<>>
    /\ raised = NoException
    /\ runs = 0
    /\ nextId = NoId + 1

\* The encoding cell is executed again: `message` is rebuilt from the file.
EncodeCell ==
    /\ pc \in {"Idle", "End", "Failed"}
    /\ message' = HumanMessage(ImageContent, NoName)
    /\ UNCHANGED <<messages, pc, node, calls, events, printed, raised, runs, nextId>>

\* The run cell starts: graph.stream({"messages": [message]}).  The input
\* goes through the reducer, which gives the message object its id.
RunCell ==
    /\ pc \in {"Idle", "End", "Failed"}
    /\ runs < MaxRuns
    /\ messages' = add_messages(<<>>, <<message>>, nextId)
    /\ message' = assign_ids(<<message>>, nextId)[1]
    /\ nextId' = nextId + count_new(<<message>>)
    /\ node' = successor(START)
    /\ pc' = "Next"
    /\ calls' = <<>>
    /\ events' = <<>>
    /\ printed' = <<>>
    /\ raised' = NoException
    /\ runs' = runs + 1

\* The graph runs node n: the agent's model is called with the current
\* conversation; an error leaves graph.stream, a completion is merged into
\* the state and yielded to the caller.
Step(n) ==
    \E out \in Outcomes(node_texts(n)) :
        LET state == [messages |-> messages]
            ret == run_node(n, state, out)
            update == assign_ids(ret.messages, nextId)
        IN /\ calls' = Append(calls,
                  [node |-> n,
                   conversation |-> messages,
                   request |-> agent_request(node_agent(n), messages),
                   out |-> out,
                   emitted |-> Len(events),
                   printed |-> Len(printed)])
           /\ IF ret.raise # NoError
              THEN /\ \E note \in {NoName, n} :
                        raised' = [error |-> ret.raise, note |-> note]
                   /\ pc' = "Failed"
                   /\ UNCHANGED <<message, messages, node, events, printed, runs, nextId>>
              ELSE /\ messages' = add_messages(messages, ret.messages, nextId)
                   /\ nextId' = nextId + count_new(ret.messages)
                   /\ events' = Append(events, stream_event(n, update))
                   /\ node' = successor(n)
                   /\ pc' = "Body"
                   /\ UNCHANGED <<message, printed, raised, runs>>

AnalysisNode ==
    /\ pc = "Next"
    /\ node = AnalysisName
    /\ Step(AnalysisName)

CreativeNode ==
    /\ pc = "Next"
    /\ node = CreativeName
    /\ Step(CreativeName)

\* The loop body for the event just yielded.
LoopBody ==
    /\ pc = "Body"
    /\ LET value == events[Len(events)]
           last == value.messages[Len(value.messages)]
       IN /\ message' = last
          /\ printed' = Append(printed, [name |-> last.name, content |-> last.content])
    /\ pc' = "Next"
    /\ UNCHANGED <<messages, node, calls, events, raised, runs, nextId>>

\* The graph reached END: the stream is exhausted and the loop ends.
EndRun ==
    /\ pc = "Next"
    /\ node = END
    /\ pc' = "End"
    /\ UNCHANGED <<message, messages, node, calls, events, printed, raised, runs, nextId>>

Next ==
    \/ EncodeCell
    \/ RunCell
    \/ AnalysisNode
    \/ CreativeNode
    \/ LoopBody
    \/ EndRun

Spec == Init /\ [][Next]_vars

----------------------------------------------------------------------------
\* Properties

IsPrefix(s, t) == Len(s) <= Len(t) /\ SubSeq(t, 1, Len(s)) = s
LastCall == calls[Len(calls)]
IsImage(m) == m.content = ImageContent /\ m.name = NoName
Said(m, name, content) == m.type = "human" /\ m.name = name /\ m.content = content

\* C1: a run that starts from one image message and in which both model
\* calls return text ends with the conversation <<initial, Analysis Agent's
\* message, Creative Agent's message>>, the contents being the texts the
\* two models returned; each agent was invoked exactly once.
C1_FullRun ==
    (pc = "End" /\ IsImage(messages[1])) =>
        /\ Len(calls) = 2
        /\ calls[1].node = AnalysisName /\ calls[1].request.llm = analysis_llm
        /\ calls[2].node = CreativeName /\ calls[2].request.llm = creative_llm
        /\ Len(messages) = 3
        /\ messages[1] = calls[1].conversation[1]
        /\ Said(messages[2], AnalysisName, calls[1].out.value)
        /\ Said(messages[3], CreativeName, calls[2].out.value)

C1_Witness ==
    /\ pc = "End"
    /\ IsImage(messages[1])
    /\ messages[2].content = "a small hedgehog on grass"
    /\ messages[3].content = "Quills like stars..."

\* C2: the Creative Agent is called only after the Analysis Agent's call has
\* returned and its message has been appended: the conversation the
\* Creative Agent receives ends with that message, at an index above the
\* initial message and below the one the Creative Agent's message takes.
C2_AnalysisBeforeCreative ==
    \A k \in DOMAIN calls :
        calls[k].node = CreativeName =>
            LET conv == calls[k].conversation
                i == Len(conv)
            IN /\ k > 1
               /\ calls[k - 1].node = AnalysisName
               /\ calls[k - 1].out.ok
               /\ i > 1
               /\ Said(conv[i], AnalysisName, calls[k - 1].out.value)
               /\ IsPrefix(conv, messages)
               /\ calls[k].out.ok =>
                    /\ Len(messages) = i + 1
                    /\ messages[i + 1].name = CreativeName

C2_Witness ==
    /\ pc = "Body"
    /\ Len(calls) = 2
    /\ calls[2].node = CreativeName
    /\ calls[2].out.ok

\* C3: every request starts with the calling agent's own system
\* instruction, followed by the conversation: analysis_prompt for the
\* Analysis Agent, creative_prompt for the Creative Agent.
C3_OwnInstruction ==
    \A k \in DOMAIN calls :
        /\ calls[k].request.messages =
              <<SystemMessage(IF calls[k].node = AnalysisName
                              THEN analysis_prompt ELSE creative_prompt)>>
              \o calls[k].conversation
        /\ calls[k].request.llm =
              (IF calls[k].node = AnalysisName THEN analysis_llm ELSE creative_llm)

\* C4: within a run the conversation only grows at its end: every step
\* keeps the earlier messages as they are, and a stage that completes
\* leaves a strictly longer conversation.
C4_AppendOnly ==
    [][runs' = runs =>
          /\ IsPrefix(messages, messages')
          /\ Len(events') > Len(events) => Len(messages') > Len(messages)]_vars

C4_Witness ==
    /\ Len(messages) = 3
    /\ Len(events) = 2
    /\ pc = "Next"

\* C5: a failed model call ends the run at once: it is the last call of the
\* run, nothing is appended or emitted for it, no node is called twice, the
\* Creative Agent is not called after a failed Analysis Agent, and the
\* events emitted before are unchanged.
C5_AbortOnFailure ==
    \A k \in DOMAIN calls :
        ~calls[k].out.ok =>
            /\ k = Len(calls)
            /\ pc = "Failed"
            /\ messages = calls[k].conversation
            /\ Len(events) = calls[k].emitted
            /\ Len(events) = k - 1
            /\ Len(printed) = calls[k].printed
            /\ \A i, j \in DOMAIN calls : calls[i].node = calls[j].node => i = j
            /\ calls[k].node = AnalysisName =>
                  \A j \in DOMAIN calls : calls[j].node # CreativeName
            /\ \A i \in DOMAIN events :
                  /\ events[i].node = calls[i].node
                  /\ events[i].messages[1].content = calls[i].out.value

C5_Witness ==
    /\ pc = "Failed"
    /\ Len(events) = 1
    /\ LastCall.node = CreativeName

\* C6: the stream yields one event per completed stage, in pipeline order,
\* each holding exactly the message that stage produced under the stage's
\* name; the Analysis Agent's event has been yielded and printed before the
\* Creative Agent is called; the loop prints each stage's own message.
C6_OneEventPerStage ==
    /\ Len(events) = Cardinality({k \in DOMAIN calls : calls[k].out.ok})
    /\ \A i \in DOMAIN events :
          /\ events[i].node = (IF i = 1 THEN AnalysisName ELSE CreativeName)
          /\ events[i].node = calls[i].node
          /\ Len(events[i].messages) = 1
          /\ Said(events[i].messages[1], events[i].node, calls[i].out.value)
    /\ Len(events) <= 2
    /\ \A k \in DOMAIN calls :
          calls[k].node = CreativeName =>
              /\ calls[k].emitted = 1
              /\ calls[k].printed = 1
    /\ Len(printed) = (IF pc = "Body" THEN Len(events) - 1 ELSE Len(events))
    /\ \A i \in DOMAIN printed :
          printed[i] = [name |-> events[i].node, content |-> calls[i].out.value]

C6_Witness ==
    /\ pc = "End"
    /\ Len(printed) = 2
    /\ printed[1].name = AnalysisName
    /\ printed[2].name = CreativeName

\* C7 as stated: the failure that reaches the caller names the stage that
\* failed.
C7_StageNamed ==
    pc = "Failed" => raised.note = LastCall.node

\* C7 as amended: the error that reaches the caller is the one the model
\* client raised, unchanged, and nothing recovers from it; a stage name
\* accompanies it or not; the failed stage is the one after the stages
\* whose events were emitted.
C7_Unchanged ==
    /\ pc # "Failed" => raised = NoException
    /\ \A k \in DOMAIN calls : ~calls[k].out.ok => pc = "Failed" /\ k = Len(calls)
    /\ pc = "Failed" =>
          /\ ~LastCall.out.ok
          /\ raised.error = LastCall.out.value
          /\ raised.note \in {NoName, LastCall.node}
          /\ LastCall.node = (IF Len(events) = 0 THEN AnalysisName ELSE CreativeName)

C7_Witness ==
    /\ pc = "Failed"
    /\ raised.error = "ConnectionError"
    /\ raised.note = NoName
    /\ LastCall.node = AnalysisName

\* C8 as stated: an empty completion fails the stage with
\* UpstreamGenerationError and no message with empty content is appended.
C8_EmptyRejected ==
    /\ \A i \in DOMAIN messages : messages[i].content # ""
    /\ \A k \in DOMAIN calls :
          (calls[k].out.ok /\ calls[k].out.value = "") =>
              /\ pc = "Failed"
              /\ raised.error = "UpstreamGenerationError"

\* C8 as amended: an empty completion is a value like any other: the stage
\* appends a message with empty content under its name and the next stage
\* receives it; a run fails only with the error of a model call; every
\* model call of the run cell receives a conversation of at least one
\* message.
C8_EmptyFlowsOn ==
    /\ \A k \in DOMAIN calls :
          /\ Len(calls[k].conversation) >= 1
          /\ (calls[k].out.ok /\ calls[k].out.value = "") =>
                LET i == Len(calls[k].conversation) + 1
                IN /\ Len(messages) >= i
                   /\ Said(messages[i], calls[k].node, "")
                   /\ k < Len(calls) => calls[k + 1].conversation[i] = messages[i]
    /\ raised.error \in ClientErrors \cup {NoError}
    /\ raised.error # NoError => raised.error = LastCall.out.value

C8_Witness ==
    /\ Len(calls) = 2
    /\ calls[1].out.value = ""
    /\ calls[2].conversation[2].content = ""
    /\ calls[2].conversation[2].name = AnalysisName

\* C9: a node invocation returns exactly one new message, named after the
\* agent and holding the model's text, and the only change to the
\* conversation is that message appended at the end; a failed invocation
\* and every step that is not a node invocation leave the conversation as
\* it is.
C9_OneMessagePerInvocation ==
    [][runs' = runs =>
          IF Len(events') > Len(events)
          THEN LET call == calls'[Len(calls')]
                   ev == events'[Len(events')]
               IN /\ call.conversation = messages
                  /\ Len(ev.messages) = 1
                  /\ Said(ev.messages[1], call.node, call.out.value)
                  /\ messages' = Append(messages, ev.messages[1])
          ELSE messages' = messages]_vars

C9_Witness ==
    /\ pc = "Body"
    /\ Len(messages) = 2
    /\ Len(events) = 1

\* C10: when the run cell has finished, `message` still holds the image
\* message, and every run starts from the image message.
C10_MessageKept ==
    /\ pc \in {"End", "Failed"} => IsImage(message)
    /\ messages # <<>> => IsImage(messages[1])

====
